---- MODULE Spec2Model ----
(***************************************************************************)
(* A model of src/src/backend_service.py: a Flask application with three   *)
(* POST handlers, get_repo, mid_output and project_summary.                *)
(*                                                                         *)
(* Python strings that the code inspects character by character (paths,   *)
(* the rendered directory tree) are sequences of one-character strings,    *)
(* so that str.replace, str.count, os.path.basename and os.path.join are   *)
(* computed as Python computes them.  Opaque strings (URLs, messages) are  *)
(* TLA+ strings.                                                           *)
(***************************************************************************)
EXTENDS Integers, Sequences, FiniteSets, Bags, TLC

VARIABLES
    GITHUB_REPOS,   \* the module-level list of line 11 (a mutable Python list)
    fs,             \* the filesystem: entries in enumeration (scandir) order
    reqs,           \* the requests, a bag: of each the handler's position, inputs and locals
    project_path,   \* SpecTree: the project_path whose tree is rendered
    dir_tree        \* SpecTree: [built, lines], the tree rendered for project_path

vars == <<GITHUB_REPOS, fs, reqs, project_path, dir_tree>>

(***************************************************************************)
(* Bounds of the model.                                                    *)
(***************************************************************************)
MaxEntries == 3     \* entries (files and directories) below "/" in SpecTree
MaxPathLen == 3     \* characters of a project_path string in SpecTree
MaxRedirects == 1   \* 307/308 redirects the upstream answers one call with
NumReq == 2         \* requests in Spec (in progress together)

(***************************************************************************)
(* Characters and strings.                                                 *)
(***************************************************************************)
sep == "/"                      \* os.sep on POSIX
Names == {"a", "b"}             \* one-character file and directory names
Chars == Names \cup {sep}

\* ' ' * n
RECURSIVE Spaces(_)
Spaces(n) == IF n <= 0 THEN <<>> ELSE <<" ">> \o Spaces(n - 1)

\* whether old occurs in s at position i (1-based)
MatchAt(s, old, i) ==
    /\ i + Len(old) - 1 <= Len(s)
    /\ \A k \in 1..Len(old) : s[i + k - 1] = old[k]

\* s.replace(old, ''), old non-empty: non-overlapping occurrences, left to right
RECURSIVE ReplaceFrom(_, _, _)
ReplaceFrom(s, old, i) ==
    IF i > Len(s) THEN <<>>
    ELSE IF MatchAt(s, old, i) THEN ReplaceFrom(s, old, i + Len(old))
    ELSE <<s[i]>> \o ReplaceFrom(s, old, i + 1)

Replace(s, old) == ReplaceFrom(s, old, 1)

\* s.count(c) for a one-character c
Count(s, c) == Cardinality({i \in 1..Len(s) : s[i] = c})

\* index of the last separator of s, 0 when there is none
LastSep(s) ==
    IF \E i \in 1..Len(s) : s[i] = sep
    THEN CHOOSE i \in 1..Len(s) : s[i] = sep /\ \A j \in (i + 1)..Len(s) : s[j] # sep
    ELSE 0

\* os.path.basename(s): what follows the last separator
basename(s) == SubSeq(s, LastSep(s) + 1, Len(s))

\* os.path.join(a, b) for a relative b
join(a, b) ==
    IF a = <<>> THEN b
    ELSE IF a[Len(a)] = sep THEN a \o b
    ELSE a \o <<sep>> \o b

\* the components of a path string: split on "/", empty components dropped
\* (the kernel's path resolution ignores repeated and trailing separators)
RECURSIVE ComponentsFrom(_, _, _)
ComponentsFrom(s, i, cur) ==
    IF i > Len(s) THEN (IF cur = <<>> THEN <<>> ELSE <<cur>>)
    ELSE IF s[i] = sep
         THEN (IF cur = <<>> THEN <<>> ELSE <<cur>>) \o ComponentsFrom(s, i + 1, <<>>)
         ELSE ComponentsFrom(s, i + 1, Append(cur, s[i]))

Components(s) == ComponentsFrom(s, 1, <<>>)

(***************************************************************************)
(* The filesystem.  An entry is [path, kind]: path is the sequence of      *)
(* components from "/" (the working directory of the process is "/", so a  *)
(* relative and an absolute spelling name the same entry).  kind is        *)
(*   "file"    a regular file,                                             *)
(*   "dir"     a directory the process can list,                           *)
(*   "locked"  a directory the process can search but not list: scandir    *)
(*             raises PermissionError,                                     *)
(*   "link"    a symbolic link to an empty directory outside the tree.     *)
(* The order of fs is the enumeration order.                               *)
(***************************************************************************)
Kinds == {"file", "dir", "locked", "link"}

AllPaths(t) == {t[i].path : i \in DOMAIN t}

\* the paths of the entries of the given kinds
PathsOfKind(t, kinds) == {t[i].path : i \in {j \in DOMAIN t : t[j].kind \in kinds}}

\* real directories: they hold the entries below them
DirPaths(t) == {<<>>} \cup PathsOfKind(t, {"dir", "locked"})

\* what os.path.isdir and DirEntry.is_dir() say yes to (both follow links)
DirLikePaths(t) == DirPaths(t) \cup PathsOfKind(t, {"link"})

\* what os.scandir can list
ListablePaths(t) == {<<>>} \cup PathsOfKind(t, {"dir", "link"})

Extensions(t) ==
    {Append(t, [path |-> Append(p, <<n>>), kind |-> k]) :
        <<p, n, k>> \in {x \in DirPaths(t) \X Names \X Kinds :
                            Append(x[1], <<x[2]>>) \notin AllPaths(t)}}

TreesOfSize[n \in Nat] ==
    IF n = 0 THEN {<<>>} ELSE UNION {Extensions(t) : t \in TreesOfSize[n - 1]}

AllTrees == UNION {TreesOfSize[n] : n \in 0..MaxEntries}

RECURSIVE StringsOfLen(_)
StringsOfLen(n) ==
    IF n = 0 THEN {<<>>}
    ELSE {Append(s, c) : <<s, c>> \in StringsOfLen(n - 1) \X Chars}

AllPathStrings == UNION {StringsOfLen(n) : n \in 0..MaxPathLen}

\* os.path.exists(s): stat follows links, and a trailing separator asks for a
\* directory
exists(t, s) ==
    /\ s # <<>>
    /\ LET p == Components(s) IN
       \/ p = <<>>
       \/ \E i \in DOMAIN t :
             t[i].path = p /\ (t[i].kind # "file" \/ s[Len(s)] # sep)

\* the names os.scandir(p) yields, in order: those whose is_dir() is true
\* (d = TRUE: directories and links to directories) or the others
RECURSIVE ListingFrom(_, _, _, _)
ListingFrom(t, p, d, i) ==
    IF i > Len(t) THEN <<>>
    ELSE LET e == t[i]
             here == /\ (e.kind # "file") = d
                     /\ Len(e.path) = Len(p) + 1
                     /\ SubSeq(e.path, 1, Len(p)) = p
         IN (IF here THEN <<e.path[Len(e.path)]>> ELSE <<>>)
            \o ListingFrom(t, p, d, i + 1)

Listing(t, p, d) == ListingFrom(t, p, d, 1)

\* os.path.islink(s)
islink(t, s) == Components(s) \in PathsOfKind(t, {"link"})

\* os.walk(top) with topdown=True, onerror=None, followlinks=False: the triples
\* (root, dirs, files) in the order yielded.  A top whose scandir fails (a
\* file, a missing path, a directory that cannot be listed) yields nothing,
\* silently; a name of dirs that is a symbolic link is not walked into.
RECURSIVE walk(_, _), walkDirs(_, _, _)
walk(t, top) ==
    IF top = <<>> \/ Components(top) \notin ListablePaths(t) THEN <<>>
    ELSE LET p == Components(top)
             dirs == Listing(t, p, TRUE)
             files == Listing(t, p, FALSE)
         IN <<[root |-> top, dirs |-> dirs, files |-> files]>>
            \o walkDirs(t, top, dirs)

walkDirs(t, top, dirs) ==
    IF dirs = <<>> THEN <<>>
    ELSE (IF islink(t, join(top, Head(dirs))) THEN <<>>
          ELSE walk(t, join(top, Head(dirs))))
         \o walkDirs(t, top, Tail(dirs))

(***************************************************************************)
(* project_summary, lines 58-65: the directory tree.  A line is            *)
(* [text, node, isdir]: text is the characters appended to dir_tree, node  *)
(* (the entry the line is for) and isdir are kept beside it so that a      *)
(* property can name the line of an entry.                                 *)
(***************************************************************************)
IndentWidth == 4

level(root, pp) == Count(Replace(root, pp), sep)

indent(root, pp) == Spaces(IndentWidth * level(root, pp))

subindent(root, pp) == Spaces(IndentWidth * (level(root, pp) + 1))

DirLine(root, pp) ==
    [text |-> indent(root, pp) \o basename(root) \o <<sep, "\n">>,
     node |-> Components(root), isdir |-> TRUE]

RECURSIVE FileLines(_, _, _)
FileLines(root, pp, files) ==
    IF files = <<>> THEN <<>>
    ELSE <<[text |-> subindent(root, pp) \o Head(files) \o <<"\n">>,
            node |-> Append(Components(root), Head(files)), isdir |-> FALSE]>>
         \o FileLines(root, pp, Tail(files))

\* a loop body that appends the file lines before the directory's own line
VisitLines_FilesFirst(triple, pp) ==
    FileLines(triple.root, pp, triple.files) \o <<DirLine(triple.root, pp)>>

\* one iteration of the loop of line 59
VisitLines(triple, pp) ==
    <<DirLine(triple.root, pp)>> \o FileLines(triple.root, pp, triple.files)

RECURSIVE RenderWalk(_, _)
RenderWalk(w, pp) ==
    IF w = <<>> THEN <<>> ELSE VisitLines(Head(w), pp) \o RenderWalk(Tail(w), pp)

DirTreeLines(t, pp) == RenderWalk(walk(t, pp), pp)

RECURSIVE Flatten(_)
Flatten(lines) ==
    IF lines = <<>> THEN <<>> ELSE Head(lines).text \o Flatten(Tail(lines))

(***************************************************************************)
(* Values exchanged over HTTP.  A text built by an f-string is the         *)
(* sequence of its fragments (the literal, then what is interpolated); a   *)
(* JSON value is [t, v]; a JSON body is a record of its fields.  A page    *)
(* the framework renders itself (an abort, an unhandled exception) is      *)
(* [html |-> ...].                                                         *)
(***************************************************************************)
JsonValues == {[t |-> "str", v |-> "generated summary"], [t |-> "null", v |-> ""]}
EmptyStr == [t |-> "str", v |-> ""]         \* the default '' of line 86

NoBody == [kind |-> "none", has_task |-> FALSE, task |-> "", has_path |-> FALSE, path |-> <<>>]

\* request bodies: zero-length (not JSON), JSON that is no object (null, a
\* list, a string), and objects with an optional task / project_path
ObjectBody(has_task, has_path, path) ==
    [kind |-> "object", has_task |-> has_task, task |-> IF has_task THEN "build a web app" ELSE "",
     has_path |-> has_path, path |-> path]

TaskBodies ==
    {[NoBody EXCEPT !.kind = "empty"], [NoBody EXCEPT !.kind = "nonobject"]}
    \cup {ObjectBody(ht, FALSE, <<>>) : ht \in BOOLEAN}

\* project_path values of Spec: '', a directory, a file, a missing path
ServerPaths == {<<>>, <<"a">>, <<"b">>, <<"a", "b">>}

PathBodies ==
    {[NoBody EXCEPT !.kind = "empty"], [NoBody EXCEPT !.kind = "nonobject"],
     ObjectBody(FALSE, FALSE, <<>>)}
    \cup {ObjectBody(FALSE, TRUE, p) : p \in ServerPaths}

\* the tree of the specification's example: a directory holding a file and a
\* subdirectory that holds a file
ExampleTree ==
    <<[path |-> << <<"a">> >>, kind |-> "dir"],
      [path |-> << <<"a">>, <<"b">> >>, kind |-> "file"],
      [path |-> << <<"a">>, <<"a">> >>, kind |-> "dir"],
      [path |-> << <<"a">>, <<"a">>, <<"b">> >>, kind |-> "file"]>>

\* the filesystem of Spec: the example tree beside a file
ServerTrees == {Append(ExampleTree, [path |-> << <<"b">> >>, kind |-> "file"])}

\* what requests.post can come to: an exception of requests.exceptions, or a
\* final reply with a status and a body.  A reply that redirects the POST
\* (RedirectCodes, with a Location) is not final: see follow_redirect.
StatusCodes == {200, 300, 304, 404, 503}

ReplyBodies ==
    {[json |-> "notjson", has_response |-> FALSE, response |-> EmptyStr],
     [json |-> "nonobject", has_response |-> FALSE, response |-> EmptyStr],
     [json |-> "object", has_response |-> FALSE, response |-> EmptyStr]}
    \cup {[json |-> "object", has_response |-> TRUE, response |-> v] : v \in JsonValues}

\* the zero-length body: http.client reads no body from a 304 reply, whatever
\* the upstream has sent with it
NoReplyBody == [json |-> "notjson", has_response |-> FALSE, response |-> EmptyStr]

\* the body of an upstream error reply: the JSON object {"error": ...}
ErrorBody == [json |-> "object", has_response |-> FALSE, response |-> EmptyStr]

\* the bodies line 86 can get from a reply of a status.  A 300 (without a
\* Location requests returns it as it is) carries any body, as a 200 does; a
\* 304 carries none; line 85 raises for 404 and 503 before line 86 reads the
\* body, so one body stands for all of theirs.
BodiesOf(status) ==
    IF status \in {200, 300} THEN ReplyBodies
    ELSE IF status = 304 THEN {NoReplyBody}
    ELSE {ErrorBody}

NoOutcome == [kind |-> "none", msg |-> "", status |-> 0, body |-> NoReplyBody]

\* the final outcomes of one requests.post call (after any redirects)
Outcomes ==
    {[NoOutcome EXCEPT !.kind = "exception", !.msg = "Connection refused"]}
    \cup UNION {{[NoOutcome EXCEPT !.kind = "reply", !.status = s, !.body = b] :
                    b \in BodiesOf(s)} : s \in StatusCodes}

\* the statuses that, with a Location header, make requests send the POST
\* again to the new location (301, 302 and 303 are followed with a GET)
RedirectCodes == {307, 308}

Response(status, body) == [status |-> status, body |-> body]

\* request.json on a body that is not JSON (sent as application/json): the
\* framework aborts with 400
BadRequest == Response(400, [html |-> "Bad Request"])
\* an exception no handler catches: the framework answers 500
InternalServerError == Response(500, [html |-> "Internal Server Error"])

(***************************************************************************)
(* get_repo, lines 24-34.                                                  *)
(***************************************************************************)
InitialRepos ==
    <<"https://github.com/facebook/react",
      "https://github.com/vuejs/vue",
      "https://github.com/angular/angular",
      "https://github.com/sveltejs/svelte",
      "https://github.com/vercel/next.js",
      "https://github.com/microsoft/TypeScript",
      "https://github.com/nodejs/node",
      "https://github.com/expressjs/express",
      "https://github.com/nestjs/nest",
      "https://github.com/django/django">>

\* random.choice(seq) with the draw i = _randbelow(len(seq))
choice(seq, i) == seq[i + 1]

\* lines 27-28 with data['task'] for data.get('task', ''): a body without a
\* task raises KeyError
ReadBody_RequireTask(body) ==
    IF body.kind = "empty" THEN BadRequest
    ELSE IF body.kind = "nonobject" \/ ~body.has_task THEN InternalServerError
    ELSE Response(0, [html |-> "ok"])

\* lines 27-28 of each handler: data = request.json; data.get(...).  The
\* response the framework gives when these lines do not complete, or "ok".
ReadBody(body) ==
    IF body.kind = "empty" THEN BadRequest
    ELSE IF body.kind = "nonobject" THEN InternalServerError   \* AttributeError
    ELSE Response(0, [html |-> "ok"])

BodyRead(body) == ReadBody(body).status = 0

\* a handler that answers with the task it was given instead of a list entry
get_repo_response_EchoTask(repos, body, i) ==
    IF ~BodyRead(body) THEN ReadBody(body)
    ELSE Response(200, [github_url |-> body.task])

get_repo_response(repos, body, i) ==
    IF ~BodyRead(body) THEN ReadBody(body)
    ELSE Response(200, [github_url |-> choice(repos, i)])

(***************************************************************************)
(* mid_output, lines 36-46.                                                *)
(***************************************************************************)
\* the string literal of line 44, its non-ASCII characters transliterated
description == "1. xiao fei de zhong jian jie guo shu chu"

mid_output_response(body) ==
    IF ~BodyRead(body) THEN ReadBody(body)
    ELSE Response(200, [description |-> description])

(***************************************************************************)
(* project_summary, lines 48-89.                                           *)
(***************************************************************************)
\* line 52: data.get('project_path', '')
GetProjectPath(body) == IF body.has_path THEN body.path ELSE <<>>

\* a validation that forgets os.path.exists
ValidPath_NoExistsCheck(t, pp) == pp # <<>>

\* line 54, negated
ValidPath(t, pp) == pp # <<>> /\ exists(t, pp)

InvalidPath == Response(400, [error |-> <<"Invalid project path">>])

\* lines 68-73
Prompt(tree) == [head |-> "instruction", tree |-> tree, tail |-> "request"]

\* lines 77-84: the arguments of requests.post, which are the first POST sent
Payload(t, pp) ==
    [url |-> "http://10.129.164.27:11434/api/generate",
     json |-> [model |-> "deepseek-r1:32b",
               prompt |-> Prompt(Flatten(DirTreeLines(t, pp))),
               stream |-> FALSE]]

\* the POST requests sends again when a 307/308 reply redirects it
Redirected(post) == [post EXCEPT !.url = "Location"]

\* a raise_for_status that raises for server errors only
RaisesForStatus_ServerOnly(status) == 500 <= status /\ status < 600

\* response.raise_for_status(): raises HTTPError for 400 <= status < 600
RaisesForStatus(status) == (400 <= status /\ status < 500) \/ (500 <= status /\ status < 600)

HTTPErrorMessage(status) ==
    IF status < 500 THEN "Client Error for url" ELSE "Server Error for url"

UpstreamFailed(msg) ==
    Response(500, [error |-> <<"Failed to connect to Ollama API: ", msg>>])

\* lines 85-89 with line 86 written as .get('response') or '': a null or
\* empty response is replaced by ''
AfterPost_OrEmpty(o) ==
    IF o.kind = "exception" THEN UpstreamFailed(o.msg)
    ELSE IF RaisesForStatus(o.status) THEN UpstreamFailed(HTTPErrorMessage(o.status))
    ELSE IF o.body.json = "notjson" THEN UpstreamFailed("Expecting value")
    ELSE IF o.body.json = "nonobject" THEN InternalServerError
    ELSE Response(200, [summary |-> IF o.body.has_response /\ o.body.response.t # "null"
                                    THEN o.body.response ELSE EmptyStr])

\* lines 85-89, once requests.post has come to outcome o
AfterPost(o) ==
    IF o.kind = "exception" THEN UpstreamFailed(o.msg)
    ELSE IF RaisesForStatus(o.status) THEN UpstreamFailed(HTTPErrorMessage(o.status))
    ELSE IF o.body.json = "notjson"          \* response.json(): JSONDecodeError,
         THEN UpstreamFailed("Expecting value")   \* a RequestException
    ELSE IF o.body.json = "nonobject" THEN InternalServerError   \* AttributeError
    ELSE Response(200, [summary |-> IF o.body.has_response THEN o.body.response
                                    ELSE EmptyStr])

(***************************************************************************)
(* The server: NumReq requests.  A request is idle until it arrives;       *)
(* get_repo and mid_output run to their response in one step;              *)
(* project_summary runs to its response, or to requests.post, where it     *)
(* blocks until the upstream call comes to an outcome.  The handlers give   *)
(* a request no identity, so the requests are a bag.                       *)
(***************************************************************************)

IdleReq ==
    [pc |-> "idle", endpoint |-> "none", body |-> NoBody, draw |-> 0,
     validated |-> FALSE,
     calls |-> 0,           \* calls of requests.post
     redirects |-> 0,       \* 307/308 replies requests has followed
     posted |-> <<>>,       \* the POSTs sent upstream, in order
     outcome |-> NoOutcome, responses |-> <<>>]

\* the requests, and the bag with new in the place of one copy of old
Requests == BagToSet(reqs)
Swap(bag, old, new) == (bag (-) SetToBag({old})) (+) SetToBag({new})

ServerInit ==
    /\ GITHUB_REPOS = InitialRepos
    /\ fs \in ServerTrees
    /\ reqs = [q \in {IdleReq} |-> NumReq]
    /\ project_path = <<>>
    /\ dir_tree = [built |-> FALSE, lines |-> <<>>]

\* a get_repo that removes the repository it returns from the list
get_repo_Pop(r) ==
    /\ r.pc = "idle"
    /\ Len(GITHUB_REPOS) > 0
    /\ \E body \in TaskBodies : \E i \in 0..(Len(GITHUB_REPOS) - 1) :
         /\ reqs' = Swap(reqs, r,
                    [r EXCEPT !.pc = "done", !.endpoint = "get_repo", !.body = body,
                              !.draw = IF BodyRead(body) THEN i ELSE 0,   \* line 32 is reached or not
                              !.responses = Append(@, get_repo_response(GITHUB_REPOS, body, i))])
         /\ GITHUB_REPOS' = IF BodyRead(body)
                            THEN SubSeq(GITHUB_REPOS, 1, i) \o SubSeq(GITHUB_REPOS, i + 2, Len(GITHUB_REPOS))
                            ELSE GITHUB_REPOS
    /\ UNCHANGED <<fs, project_path, dir_tree>>

get_repo(r) ==
    /\ r.pc = "idle"
    /\ \E body \in TaskBodies : \E i \in 0..(Len(GITHUB_REPOS) - 1) :
         reqs' = Swap(reqs, r,
                    [r EXCEPT !.pc = "done", !.endpoint = "get_repo", !.body = body,
                              !.draw = IF BodyRead(body) THEN i ELSE 0,   \* line 32 is reached or not
                              !.responses = Append(@, get_repo_response(GITHUB_REPOS, body, i))])
    /\ UNCHANGED <<GITHUB_REPOS, fs, project_path, dir_tree>>

mid_output(r) ==
    /\ r.pc = "idle"
    /\ \E body \in TaskBodies :
         reqs' = Swap(reqs, r,
                    [r EXCEPT !.pc = "done", !.endpoint = "mid_output", !.body = body,
                              !.responses = Append(@, mid_output_response(body))])
    /\ UNCHANGED <<GITHUB_REPOS, fs, project_path, dir_tree>>

\* lines 51-84: up to the response of line 55, or to the call of requests.post
project_summary(r) ==
    /\ r.pc = "idle"
    /\ \E body \in PathBodies :
         LET pp == GetProjectPath(body)
             arrived == [r EXCEPT !.endpoint = "project_summary", !.body = body]
         IN reqs' = Swap(reqs, r,
              IF ~BodyRead(body)
              THEN [arrived EXCEPT !.pc = "done", !.responses = Append(@, ReadBody(body))]
              ELSE IF ~ValidPath(fs, pp)
              THEN [arrived EXCEPT !.pc = "done", !.responses = Append(@, InvalidPath)]
              ELSE [arrived EXCEPT !.pc = "posting", !.validated = TRUE,
                                   !.calls = @ + 1,
                                   !.posted = Append(@, Payload(fs, pp))])
    /\ UNCHANGED <<GITHUB_REPOS, fs, project_path, dir_tree>>

\* inside requests.post (lines 77-84): the upstream answers the POST with a
\* 307 or 308 and a Location, and requests sends the POST again there.  The
\* handler is still in its one call.  (requests gives up after 30 redirects
\* with TooManyRedirects, a RequestException; the upstream here redirects at
\* most MaxRedirects times.)
follow_redirect(r) ==
    /\ r.pc = "posting"
    /\ r.redirects < MaxRedirects
    /\ \E status \in RedirectCodes :
         reqs' = Swap(reqs, r,
                    [r EXCEPT !.redirects = @ + 1,
                              !.posted = Append(@, Redirected(@[Len(@)]))])
    /\ UNCHANGED <<GITHUB_REPOS, fs, project_path, dir_tree>>

\* a handler that posts again when the upstream call has failed
project_summary_return_Retry(r) ==
    /\ r.pc = "posting"
    /\ \E o \in Outcomes :
         reqs' = Swap(reqs, r,
                    IF AfterPost(o).status = 500 /\ r.calls < 2
                    THEN [r EXCEPT !.calls = @ + 1,
                                   !.posted = Append(@, Payload(fs, GetProjectPath(r.body)))]
                    ELSE [r EXCEPT !.pc = "done", !.outcome = o,
                                   !.responses = Append(@, AfterPost(o))])
    /\ UNCHANGED <<GITHUB_REPOS, fs, project_path, dir_tree>>

\* lines 84-89: requests.post returns or raises, and the handler responds
project_summary_return(r) ==
    /\ r.pc = "posting"
    /\ \E o \in Outcomes :
         reqs' = Swap(reqs, r,
                    [r EXCEPT !.pc = "done", !.outcome = o,
                              !.responses = Append(@, AfterPost(o))])
    /\ UNCHANGED <<GITHUB_REPOS, fs, project_path, dir_tree>>

Next ==
    \E r \in Requests :
        \/ get_repo(r)
        \/ mid_output(r)
        \/ project_summary(r)
        \/ follow_redirect(r)
        \/ project_summary_return(r)

Spec == ServerInit /\ [][Next]_vars

(***************************************************************************)
(* SpecTree: the tree rendering of lines 58-65 alone, for every filesystem *)
(* of at most MaxEntries entries and every project_path string of at most  *)
(* MaxPathLen characters that passes the validation of line 54.            *)
(***************************************************************************)
TreeInit ==
    /\ GITHUB_REPOS = InitialRepos
    /\ fs \in AllTrees
    /\ reqs = [q \in {IdleReq} |-> NumReq]
    /\ project_path \in AllPathStrings
    /\ ValidPath(fs, project_path)         \* line 54 has let the request through
    /\ dir_tree = [built |-> FALSE, lines |-> <<>>]

BuildTree ==
    /\ ~dir_tree.built
    /\ ValidPath(fs, project_path)
    /\ dir_tree' = [built |-> TRUE, lines |-> DirTreeLines(fs, project_path)]
    /\ UNCHANGED <<GITHUB_REPOS, fs, reqs, project_path>>

TreeNext == BuildTree

SpecTree == TreeInit /\ [][TreeNext]_vars

(***************************************************************************)
(* Properties of the rendered tree (SpecTree).                             *)
(***************************************************************************)
RootNode == Components(project_path)

IsPrefix(p, q) == Len(p) <= Len(q) /\ SubSeq(q, 1, Len(p)) = p

\* the directories (links to directories among them) and the files of fs at
\* or below the walked root
DirsUnderRoot == {d \in DirLikePaths(fs) : IsPrefix(RootNode, d)}
FilesUnderRoot == {f \in PathsOfKind(fs, {"file"}) : IsPrefix(RootNode, f) /\ f # RootNode}

KindOf(node) ==
    IF node = <<>> THEN "dir"
    ELSE (CHOOSE e \in {fs[i] : i \in DOMAIN fs} : e.path = node).kind

\* the directories os.walk visits: the root if it can be listed, and below it
\* every directory reached through directories that can be listed and are
\* not symbolic links
VisitedDirs ==
    {d \in DirsUnderRoot :
        /\ KindOf(RootNode) \in {"dir", "link"}
        /\ \A k \in (Len(RootNode) + 1)..Len(d) : KindOf(SubSeq(d, 1, k)) = "dir"}

\* the files of the visited directories
VisitedFiles == {f \in FilesUnderRoot : SubSeq(f, 1, Len(f) - 1) \in VisitedDirs}

Lines == dir_tree.lines

LeadingSpaces(text) ==
    IF \E i \in 1..Len(text) : text[i] # " "
    THEN (CHOOSE i \in 1..Len(text) : text[i] # " " /\ \A j \in 1..(i - 1) : text[j] = " ") - 1
    ELSE Len(text)

\* depth of a directory below the walked root: the root has depth 0
Depth(node) == Len(node) - Len(RootNode)

Parent(node) == SubSeq(node, 1, Len(node) - 1)

\* C1: every directory line is indented by 4*d spaces and every file line by
\* 4*(d+1) spaces, d the depth of the (containing) directory below the root,
\* for every project_path string and every tree.
C1_IndentIsFourPerLevel ==
    dir_tree.built =>
        \A i \in DOMAIN Lines :
            LeadingSpaces(Lines[i].text) =
                IF Lines[i].isdir THEN IndentWidth * Depth(Lines[i].node)
                ELSE IndentWidth * (Depth(Parent(Lines[i].node)) + 1)

PosOf(node) == CHOOSE i \in DOMAIN Lines : Lines[i].node = node

EndsWithSlash(text) ==
    Len(text) >= 2 /\ text[Len(text)] = "\n" /\ text[Len(text) - 1] = sep

\* the lines are those of the directories dirs and the files files, one each,
\* directory lines ending in "/", in depth-first pre-order: a directory's line
\* precedes the lines of everything below it, its own files follow its line
\* directly, before any subdirectory's line, and the lines of a subtree are
\* contiguous
PreOrderOf(dirs, files) ==
    /\ \A d \in dirs :
          Cardinality({i \in DOMAIN Lines : Lines[i].node = d}) = 1
    /\ \A f \in files :
          Cardinality({i \in DOMAIN Lines : Lines[i].node = f}) = 1
    /\ Len(Lines) = Cardinality(dirs) + Cardinality(files)
    /\ \A i \in DOMAIN Lines :
          /\ Lines[i].isdir <=> Lines[i].node \in dirs
          /\ Lines[i].isdir <=> EndsWithSlash(Lines[i].text)
    /\ \A d \in dirs :
          LET below == {i \in DOMAIN Lines :
                          IsPrefix(d, Lines[i].node) /\ Lines[i].node # d}
              own == {i \in below : ~Lines[i].isdir /\ Len(Lines[i].node) = Len(d) + 1}
          IN /\ \A i \in below : PosOf(d) < i
             /\ own = (PosOf(d) + 1)..(PosOf(d) + Cardinality(own))
             /\ below = (PosOf(d) + 1)..(PosOf(d) + Cardinality(below))

\* C10 as stated: the tree is in depth-first pre-order with one line ending in
\* "/" for every directory at or under the root and one line for every file.
C10_EveryDirectoryInPreOrder ==
    (dir_tree.built /\ RootNode \in DirLikePaths(fs)) =>
        PreOrderOf(DirsUnderRoot, FilesUnderRoot)

\* C10, amended: the tree is in depth-first pre-order with one line ending in
\* "/" for every directory os.walk visits (the root, and each directory
\* reached from it through directories that can be listed and are not
\* symbolic links), one line for every file of a visited directory, and no
\* other line.
C10_DepthFirstPreOrder ==
    (dir_tree.built /\ RootNode \in DirLikePaths(fs)) =>
        PreOrderOf(VisitedDirs, VisitedFiles)

\* a tree with a file in the root directory and a subdirectory was rendered,
\* and a directory below the root (a symbolic link, or one that cannot be
\* listed) was not visited
C10_Witness ==
    /\ dir_tree.built
    /\ Len(Lines) >= 3
    /\ VisitedDirs # DirsUnderRoot
    /\ \E i, j \in DOMAIN Lines :
          /\ ~Lines[i].isdir /\ Len(Lines[i].node) = Len(RootNode) + 1
          /\ Lines[j].isdir /\ Len(Lines[j].node) = Len(RootNode) + 1

(***************************************************************************)
(* Properties of the server (Spec).                                        *)
(***************************************************************************)
Done(r) == r.pc = "done"
Resp(r) == r.responses[1]
Handled(r, endpoint) == Done(r) /\ r.endpoint = endpoint

\* a call that the handler can answer: the request carries a JSON object
CarriesObject(r) == r.body.kind = "object"

\* C2: every successful get_repo call returns 200 with a body holding both a
\* github_url field and a description field.
C2_RepoBodyHasUrlAndDescription ==
    \A r \in Requests :
        (Handled(r, "get_repo") /\ CarriesObject(r)) =>
            /\ Resp(r).status = 200
            /\ {"github_url", "description"} \subseteq DOMAIN Resp(r).body

\* C3 as stated: mid_output answers 200 with the fixed description for every
\* request, whatever its body: with a task, without one, or empty.
C3_StubAlwaysAnswersDescription ==
    \A r \in Requests :
        Handled(r, "mid_output") =>
            Resp(r) = Response(200, [description |-> description])

\* C3, amended: mid_output answers 200 with the fixed description for every
\* request that carries a JSON object, with a task field or without one.
C3_StubAnswersDescriptionToObjects ==
    \A r \in Requests :
        (Handled(r, "mid_output") /\ CarriesObject(r)) =>
            Resp(r) = Response(200, [description |-> description])

\* a body with a task and a body without one (the object {}) got the same answer
C3_Witness ==
    \E r, q \in Requests :
        /\ Handled(r, "mid_output") /\ CarriesObject(r) /\ r.body.has_task
        /\ Handled(q, "mid_output") /\ CarriesObject(q) /\ ~q.body.has_task
        /\ Resp(r) = Resp(q)
        /\ Resp(r).status = 200

\* C4: in any sequence of calls, a github_url that get_repo returns is one of
\* the 10 URLs of the static list.
C4_UrlIsOneOfTheTen ==
    /\ Cardinality({InitialRepos[k] : k \in DOMAIN InitialRepos}) = 10
    /\ \A r \in Requests :
        (Handled(r, "get_repo") /\ "github_url" \in DOMAIN Resp(r).body) =>
            Resp(r).body.github_url \in {InitialRepos[k] : k \in DOMAIN InitialRepos}

\* two calls were answered, with two different URLs
C4_Witness ==
    \E r, q \in Requests :
        /\ Handled(r, "get_repo") /\ "github_url" \in DOMAIN Resp(r).body
        /\ Handled(q, "get_repo") /\ "github_url" \in DOMAIN Resp(q).body
        /\ Resp(r).body.github_url # Resp(q).body.github_url

\* C5: a project_summary request (a JSON object) whose project_path is absent,
\* empty, or names nothing on the filesystem is answered with 400 and
\* {error: "Invalid project path"}.
C5_InvalidPathIs400 ==
    \A r \in Requests :
        (/\ Handled(r, "project_summary")
         /\ r.body.kind = "object"
         /\ \/ ~r.body.has_path
            \/ r.body.path = <<>>
            \/ ~exists(fs, r.body.path)) =>
            /\ r.responses = <<Response(400, [error |-> <<"Invalid project path">>])>>
            /\ r.posted = <<>>

\* one request without project_path and one naming a missing path were answered
C5_Witness ==
    \E r, q \in Requests :
        /\ Handled(r, "project_summary") /\ r.body.kind = "object"
        /\ ~r.body.has_path
        /\ Handled(q, "project_summary") /\ q.body.has_path
        /\ q.body.path # <<>> /\ ~exists(fs, q.body.path)
        /\ Resp(q).status = 400

UpstreamFailure(o) ==
    \/ o.kind = "exception"
    \/ o.kind = "reply" /\ ~(200 <= o.status /\ o.status <= 299)

FailedToConnect(r) ==
    /\ Resp(r).status = 500
    /\ DOMAIN Resp(r).body = {"error"}
    /\ Len(Resp(r).body.error) = 2
    /\ Resp(r).body.error[1] = "Failed to connect to Ollama API: "

\* C6 as stated: when the upstream call fails in any way (an exception, or a
\* non-2xx status), project_summary answers 500 with an error that starts with
\* "Failed to connect to Ollama API" and embeds the exception's message.
C6_UpstreamFailureIs500 ==
    \A r \in Requests :
        (Handled(r, "project_summary") /\ UpstreamFailure(r.outcome)) =>
            FailedToConnect(r)

UpstreamError(o) ==
    \/ o.kind = "exception"
    \/ o.kind = "reply" /\ 400 <= o.status /\ o.status <= 599

\* C6, amended: when the upstream call raises a transport error or the reply's
\* status is 4xx or 5xx, project_summary answers 500 with an error that starts
\* with "Failed to connect to Ollama API" and embeds the exception's message;
\* it never answers 200.
C6_UpstreamErrorIs500 ==
    \A r \in Requests :
        (Handled(r, "project_summary") /\ UpstreamError(r.outcome)) =>
            /\ FailedToConnect(r)
            /\ Resp(r).body.error[2] =
                  IF r.outcome.kind = "exception" THEN r.outcome.msg
                  ELSE HTTPErrorMessage(r.outcome.status)
            /\ Len(r.responses) = 1

\* a transport error and a 404 reply were both reported as 500
C6_Witness ==
    \E r, q \in Requests :
        /\ Handled(r, "project_summary") /\ r.outcome.kind = "exception"
        /\ Resp(r).status = 500
        /\ Handled(q, "project_summary") /\ q.outcome.kind = "reply"
        /\ q.outcome.status = 404
        /\ q.outcome.body.json = "object"
        /\ Resp(q).status = 500

UpstreamSucceeded(o) == o.kind = "reply" /\ 200 <= o.status /\ o.status <= 299

\* C7 as stated: whenever the upstream call succeeds (2xx), for every upstream
\* reply, project_summary answers 200 with summary equal to the reply's
\* response field.
C7_EverySuccessPassesThrough ==
    \A r \in Requests :
        (Handled(r, "project_summary") /\ UpstreamSucceeded(r.outcome)) =>
            Resp(r) = Response(200, [summary |-> r.outcome.body.response])

\* C7, amended: when the upstream call succeeds (2xx) and the reply's body is a
\* JSON object with a response field, project_summary answers 200 with summary
\* equal exactly to that field's value.
C7_ObjectReplyPassesThrough ==
    \A r \in Requests :
        (/\ Handled(r, "project_summary")
         /\ UpstreamSucceeded(r.outcome)
         /\ r.outcome.body.json = "object"
         /\ r.outcome.body.has_response) =>
            Resp(r) = Response(200, [summary |-> r.outcome.body.response])

\* a 2xx reply with a response string was passed through
C7_Witness ==
    \E r \in Requests :
        /\ Handled(r, "project_summary")
        /\ UpstreamSucceeded(r.outcome)
        /\ r.outcome.body.has_response
        /\ r.outcome.body.response.t = "str"
        /\ Resp(r).status = 200
        /\ Resp(r).body.summary = r.outcome.body.response

PassesValidation(r) ==
    /\ BodyRead(r.body)
    /\ GetProjectPath(r.body) # <<>>
    /\ exists(fs, GetProjectPath(r.body))

\* C8 as stated: no retry: a project_summary request issues zero upstream
\* POSTs when it does not pass validation and exactly one otherwise, and ends
\* with one response.
C8_ExactlyOnePost ==
    \A r \in Requests :
        r.endpoint = "project_summary" =>
            /\ Len(r.posted) = IF PassesValidation(r) THEN 1 ELSE 0
            /\ Len(r.responses) = IF Done(r) THEN 1 ELSE 0

\* C8, amended: no retry: a project_summary request calls requests.post zero
\* times when it does not pass validation and exactly once otherwise, whether
\* the call succeeds or fails, and ends with one response; the one call sends
\* one POST and one more for each 307/308 redirect it follows, each with the
\* same payload, and none after its outcome.
C8_NoRetry ==
    \A r \in Requests :
        r.endpoint = "project_summary" =>
            /\ r.validated <=> PassesValidation(r)
            /\ r.calls = IF r.validated THEN 1 ELSE 0
            /\ Len(r.posted) = r.calls + r.redirects
            /\ ~r.validated => r.redirects = 0
            /\ \A i \in DOMAIN r.posted :
                  r.posted[i].json = r.posted[1].json
            /\ Len(r.responses) = IF Done(r) THEN 1 ELSE 0

\* one request failed validation without a post, another made its one call,
\* was redirected once, failed upstream and reported it once
C8_Witness ==
    \E r, q \in Requests :
        /\ Handled(r, "project_summary") /\ ~r.validated
        /\ Resp(r).status = 400 /\ r.posted = <<>>
        /\ Handled(q, "project_summary") /\ q.validated
        /\ q.outcome.kind = "exception"
        /\ Resp(q).status = 500 /\ q.calls = 1
        /\ q.redirects = 1 /\ Len(q.posted) = 2

\* the response a request gets, from its own body, its own draw, the
\* filesystem and its own upstream outcome alone
OwnResponse(q) ==
    IF q.endpoint = "get_repo" THEN get_repo_response(InitialRepos, q.body, q.draw)
    ELSE IF q.endpoint = "mid_output" THEN mid_output_response(q.body)
    ELSE IF ~BodyRead(q.body) THEN ReadBody(q.body)
    ELSE IF ~ValidPath(fs, GetProjectPath(q.body)) THEN InvalidPath
    ELSE AfterPost(q.outcome)

\* C9: under any interleaving, GITHUB_REPOS keeps its 10 initial values in
\* order, and each response (and each upstream post) is determined by the
\* request's own inputs, never by another request.
C9_NoSharedMutableState ==
    /\ GITHUB_REPOS = InitialRepos
    /\ \A r \in Requests :
        /\ Done(r) => r.responses = <<OwnResponse(r)>>
        /\ r.pc = "posting" =>
              /\ r.posted[1] = Payload(fs, GetProjectPath(r.body))
              /\ \A i \in DOMAIN r.posted :
                    r.posted[i].json = Payload(fs, GetProjectPath(r.body)).json

\* a get_repo call was answered while a project_summary call was waiting for
\* the upstream
C9_Witness ==
    \E r, q \in Requests :
        /\ r.pc = "posting"
        /\ Handled(q, "get_repo") /\ Resp(q).status = 200

====
